---- MODULE Spec2Model ----
(***************************************************************************)
(* Model of the deal-evaluation engine of app.py (bonus accelerator):      *)
(* check_eligibility, determine_tier, get_base_bonus, get_fx_rate,         *)
(* build_payout_schedule and compute_deal, driven by the "Compute Bonus"   *)
(* button of the calculator tab.                                           *)
(*                                                                         *)
(* Number representation.  The program works on Python floats; the model   *)
(* uses exact fixed-point integers:                                        *)
(*   order values and tier bounds   thousandths of a USD (OrderScale)      *)
(*   bonus and payout amounts       cents                (CentScale)       *)
(*   tier multipliers               tenths               (MultScale)       *)
(*   payout fractions               hundredths           (FracScale)       *)
(*   FX rates                       hundredths           (FxScale)         *)
(* Dates are proleptic Gregorian ordinals, as datetime.date.toordinal().   *)
(* Optional values (max_value, tier name) are sequences of length 0 or 1.  *)
(***************************************************************************)
EXTENDS Integers, Sequences, FiniteSets, TLC

VARIABLES
    cfg,    \* st.session_state.config : ProgramConfig
    deal,   \* the DealInput assembled from the calculator widgets
    pc,     \* "form": widgets filled, button not pressed; "done": compute_deal ended
    res     \* what compute_deal produced: a DealResult, or the exception it raised

vars == <<cfg, deal, pc, res>>

----------------------------------------------------------------------------
(* Fixed-point scales *)

OrderScale == 1000
CentScale == 100
MultScale == 10
FracScale == 100
FxScale == 100

USD(dollars) == dollars * CentScale
Order(dollars) == dollars * OrderScale

----------------------------------------------------------------------------
(* Python's round() *)

\* round(x) of an exactly representable x = n/d (d > 0): round half to even.
RoundHalfEven(n, d) ==
    LET q == n \div d
        r == n % d
    IN  IF 2 * r < d THEN q
        ELSE IF 2 * r > d THEN q + 1
        ELSE IF q % 2 = 0 THEN q ELSE q + 1

\* round(x, 2), in cents, of a product whose exact value is n/d cents (d > 0):
\* the nearest cent, half to even.  (On floats a product that is an exact
\* decimal half-cent lies just beside the tie and goes to either neighbour,
\* round(10.01 * 1.5, 2) = 15.02 but round(15.01 * 0.5, 2) = 7.5; the amounts,
\* multipliers, fractions and rates of Configs produce no half-cent.)
Round2(n, d) == RoundHalfEven(n, d)

\* round(a * n / d, 2) in cents, for an amount a and a scaled factor n/d,
\* split so that no intermediate product leaves the 32-bit integers:
\* a * n / d = (n \div d) * a + a * (n % d) / d.
MulRound2(a, n, d) ==
    (n \div d) * a + Round2(a * (n % d), d)

----------------------------------------------------------------------------
(* datetime.date *)

YearRange == 2022 .. 2029

IsLeap(y) == (y % 4 = 0) /\ ((y % 100 # 0) \/ (y % 400 = 0))

DaysInMonth(y, m) ==
    IF m = 2 THEN (IF IsLeap(y) THEN 29 ELSE 28)
    ELSE IF m \in {4, 6, 9, 11} THEN 30 ELSE 31

DaysBeforeYear(y) ==
    (y - 1) * 365 + ((y - 1) \div 4) - ((y - 1) \div 100) + ((y - 1) \div 400)

RECURSIVE DaysBeforeMonth(_, _)
DaysBeforeMonth(y, m) ==
    IF m = 1 THEN 0 ELSE DaysBeforeMonth(y, m - 1) + DaysInMonth(y, m - 1)

\* dt.date(y, m, d)
Date(y, m, d) == DaysBeforeYear(y) + DaysBeforeMonth(y, m) + d

YearOf(n) ==
    CHOOSE y \in YearRange : DaysBeforeYear(y) < n /\ n <= DaysBeforeYear(y + 1)

MonthOf(n) ==
    LET y == YearOf(n)
        k == n - DaysBeforeYear(y)
    IN  CHOOSE m \in 1 .. 12 :
            DaysBeforeMonth(y, m) < k /\ k <= DaysBeforeMonth(y, m) + DaysInMonth(y, m)

DayOf(n) ==
    LET y == YearOf(n)
    IN  n - DaysBeforeYear(y) - DaysBeforeMonth(y, MonthOf(n))

\* d.replace(day=k)
ReplaceDay(n, k) == Date(YearOf(n), MonthOf(n), k)

\* The average month length 30.4375 = DaysNum / DaysDen, exact in binary.
DaysNum == 487
DaysDen == 16

\* round(months * 30.4375): the product is exact, so ties go to even.
MonthsToDays(months) == RoundHalfEven(months * DaysNum, DaysDen)

quarter_key(d) == <<YearOf(d), ((MonthOf(d) - 1) \div 3) + 1>>

end_of_month(d) ==
    LET nm == ReplaceDay(d, 28) + 4
    IN  nm - DayOf(nm)

----------------------------------------------------------------------------
(* Values and exceptions *)

None == <<>>
Some(v) == <<v>>

\* A call either returns a value or raises.
Ok(v) == [ok |-> TRUE, value |-> v]
Raise(e) == [ok |-> FALSE, error |-> e]

\* str.upper() on the currency codes the model uses
Upper(s) ==
    CASE s = "usd" -> "USD"
      [] s = "eur" -> "EUR"
      [] OTHER -> s

\* str.strip() on the identifiers the model uses
Strip(s) == IF s = "   " THEN "" ELSE s

\* One entry of DealResult.reasons: the message and its interpolated values.
Reason(text, args) == [text |-> text, args |-> args]

NotNewText == "Customer is not new."
NotPushText == "Product is not a designated push product."
OrderText == "Order value below ${min_order_usd} USD minimum."
TermText == "Contract term below {min_term_months} months."
WindowText == "Signing date outside program window (18 months post launch/announce)."
FxText == "No FX rate found for {currency} in {quarter_key}; using 1.0."

----------------------------------------------------------------------------
(* The engine *)

\* check_eligibility with the window's end excluded (< for <=)
check_eligibility_exclusive_end(d, c) ==
    LET r1 == IF ~d.is_new_customer THEN <<Reason(NotNewText, <<>>)>> ELSE <<>>
        r2 == IF ~d.product_type_push THEN <<Reason(NotPushText, <<>>)>> ELSE <<>>
        r3 == IF d.annual_order_value < c.min_order_usd
              THEN <<Reason(OrderText, <<c.min_order_usd>>)>> ELSE <<>>
        r4 == IF d.contract_term_months < c.min_term_months
              THEN <<Reason(TermText, <<c.min_term_months>>)>> ELSE <<>>
        window_end == d.launch_or_announce_date + MonthsToDays(c.program_months)
        r5 == IF ~(d.launch_or_announce_date <= d.signing_date
                   /\ d.signing_date < window_end)
              THEN <<Reason(WindowText, <<>>)>> ELSE <<>>
        reasons == r1 \o r2 \o r3 \o r4 \o r5
    IN  <<Len(reasons) = 0, reasons>>

check_eligibility(d, c) ==
    LET r1 == IF ~d.is_new_customer THEN <<Reason(NotNewText, <<>>)>> ELSE <<>>
        r2 == IF ~d.product_type_push THEN <<Reason(NotPushText, <<>>)>> ELSE <<>>
        r3 == IF d.annual_order_value < c.min_order_usd
              THEN <<Reason(OrderText, <<c.min_order_usd>>)>> ELSE <<>>
        r4 == IF d.contract_term_months < c.min_term_months
              THEN <<Reason(TermText, <<c.min_term_months>>)>> ELSE <<>>
        window_end == d.launch_or_announce_date + MonthsToDays(c.program_months)
        r5 == IF ~(d.launch_or_announce_date <= d.signing_date
                   /\ d.signing_date <= window_end)
              THEN <<Reason(WindowText, <<>>)>> ELSE <<>>
        reasons == r1 \o r2 \o r3 \o r4 \o r5
    IN  <<Len(reasons) = 0, reasons>>

\* The loop condition of determine_tier
TierMatches(v, t) ==
    (v >= t.min_value) /\ (t.max_value = None \/ v <= t.max_value[1])

\* The loop of determine_tier: the index of the first matching tier, 0 if none
RECURSIVE FirstMatch(_, _, _)
FirstMatch(v, tiers, i) ==
    IF i > Len(tiers) THEN 0
    ELSE IF TierMatches(v, tiers[i]) THEN i
    ELSE FirstMatch(v, tiers, i + 1)

\* Insert t into a list sorted by min_value, after the entries that are not
\* larger: sorted() is stable.
RECURSIVE InsertByMinValue(_, _)
InsertByMinValue(t, s) ==
    IF s = <<>> THEN <<t>>
    ELSE IF Head(s).min_value <= t.min_value
         THEN <<Head(s)>> \o InsertByMinValue(t, Tail(s))
         ELSE <<t>> \o s

\* sorted(tiers, key=lambda x: x.min_value)
RECURSIVE SortedByMinValue(_)
SortedByMinValue(tiers) ==
    IF tiers = <<>> THEN <<>>
    ELSE InsertByMinValue(tiers[Len(tiers)],
                          SortedByMinValue(SubSeq(tiers, 1, Len(tiers) - 1)))

\* determine_tier falling back to tiers[0] instead of the smallest min_value
determine_tier_first_fallback(order_value_usd, tiers) ==
    LET i == FirstMatch(order_value_usd, tiers, 1)
    IN  IF i > 0 THEN Ok(tiers[i])
        ELSE IF Len(tiers) = 0 THEN Raise("IndexError")
        ELSE Ok(tiers[1])

determine_tier(order_value_usd, tiers) ==
    LET i == FirstMatch(order_value_usd, tiers, 1)
        s == SortedByMinValue(tiers)
    IN  IF i > 0 THEN Ok(tiers[i])
        ELSE IF Len(s) = 0 THEN Raise("IndexError")   \* [][0]
        ELSE Ok(s[1])

get_base_bonus(region, role, c) ==
    LET m == c.base_bonus_by_region_role
    IN  IF region \in DOMAIN m /\ role \in DOMAIN m[region]
        THEN m[region][role] ELSE 0

\* get_fx_rate comparing the currency with "USD" without upper()
get_fx_rate_case_sensitive(ccy, signing_date, c) ==
    LET qk == quarter_key(signing_date)
        m == c.fx_by_quarter
    IN  IF ccy = "USD" THEN FxScale
        ELSE IF qk \in DOMAIN m /\ Upper(ccy) \in DOMAIN m[qk]
             THEN m[qk][Upper(ccy)] ELSE FxScale

get_fx_rate(ccy, signing_date, c) ==
    LET qk == quarter_key(signing_date)
        m == c.fx_by_quarter
    IN  IF Upper(ccy) = "USD" THEN FxScale
        ELSE IF qk \in DOMAIN m /\ Upper(ccy) \in DOMAIN m[qk]
             THEN m[qk][Upper(ccy)] ELSE FxScale

\* build_payout_schedule rounding to whole USD (round(x) for round(x, 2))
build_payout_schedule_whole_usd(tier, signing_date, gross_bonus_usd) ==
    [i \in 1 .. Len(tier.payouts) |->
        LET months == tier.payouts[i][1]
            frac == tier.payouts[i][2]
        IN  <<end_of_month(signing_date + MonthsToDays(months)),
              CentScale * Round2(gross_bonus_usd * frac, FracScale * CentScale)>>]

build_payout_schedule(tier, signing_date, gross_bonus_usd) ==
    [i \in 1 .. Len(tier.payouts) |->
        LET months == tier.payouts[i][1]
            frac == tier.payouts[i][2]
        IN  <<end_of_month(signing_date + MonthsToDays(months)),
              MulRound2(gross_bonus_usd, frac, FracScale)>>]

\* the multiplier not zeroed for an ineligible deal
effective_multiplier_always(eligible, tier) ==
    tier.multiplier

\* multiplier = tier.multiplier if eligible else 0.0
effective_multiplier(eligible, tier) ==
    IF eligible THEN tier.multiplier ELSE 0

\* the conversion cut down to whole cents (floor) instead of rounded
local_amount_truncated(usd, fx) ==
    (fx \div FxScale) * usd + ((usd * (fx % FxScale)) \div FxScale)

\* round(usd * fx, 2), on the USD amount the schedule already rounded
local_amount(usd, fx) ==
    MulRound2(usd, fx, FxScale)

\* if fx == 1.0 and deal.currency.upper() != "USD"
fx_warning_due(fx, currency) ==
    fx = FxScale /\ Upper(currency) # "USD"

compute_deal(d, c) ==
    LET elig == check_eligibility(d, c)
        eligible == elig[1]
        sel == determine_tier(d.annual_order_value, c.tiers)
    IN  IF ~sel.ok THEN sel
        ELSE
        LET tier == sel.value
            base_bonus == get_base_bonus(d.region, d.role, c)
            multiplier == effective_multiplier(eligible, tier)
            gross_bonus_usd == MulRound2(base_bonus, multiplier, MultScale)
            fx == get_fx_rate(d.currency, d.signing_date, c)
            sched == build_payout_schedule(tier, d.signing_date, gross_bonus_usd)
            payouts == IF eligible
                       THEN [i \in 1 .. Len(sched) |->
                                [date |-> sched[i][1],
                                 amount_usd |-> sched[i][2],
                                 amount_local |-> local_amount(sched[i][2], fx)]]
                       ELSE <<>>
            reasons == IF fx_warning_due(fx, d.currency)
                       THEN Append(elig[2],
                                   Reason(FxText, <<d.currency, quarter_key(d.signing_date)>>))
                       ELSE elig[2]
        IN  Ok([eligible |-> eligible,
                reasons |-> reasons,
                tier |-> IF eligible THEN Some(tier.name) ELSE None,
                multiplier |-> multiplier,
                base_bonus_usd |-> base_bonus,
                gross_bonus_usd |-> gross_bonus_usd,
                fx_rate |-> fx,
                currency |-> Upper(d.currency),
                payouts |-> payouts,
                checklist |-> [SFDC_PO_Submitted |-> Strip(d.sfdc_po_id) # "",
                               SalesOps_Validated |-> FALSE,
                               ProductMgmt_Validated |-> FALSE,
                               Bonus_Confirmed_Within_30_Days |-> FALSE],
                audit |-> [input |-> d, tier_rule |-> tier]])

----------------------------------------------------------------------------
(* Configurations *)

TierRule(name, min_value, max_value, multiplier, payouts) ==
    [name |-> name, min_value |-> min_value, max_value |-> max_value,
     multiplier |-> multiplier, payouts |-> payouts]

ProgramConfig(program_months, min_order_usd, min_term_months, bb, fx, tiers) ==
    [program_months |-> program_months, min_order_usd |-> min_order_usd,
     min_term_months |-> min_term_months, confirm_sla_days |-> 30,
     base_bonus_by_region_role |-> bb, fx_by_quarter |-> fx, tiers |-> tiers]

DefaultBaseBonus ==
    ("NA" :> ("AE" :> USD(5000) @@ "SE" :> USD(5000) @@ "AM" :> USD(6000)))
    @@ ("EMEA" :> ("AE" :> USD(4500) @@ "SE" :> USD(4500) @@ "AM" :> USD(5500)))
    @@ ("APAC" :> ("AE" :> USD(4000) @@ "SE" :> USD(4000) @@ "AM" :> USD(5000)))

DefaultFx ==
    (<<2025, 3>> :> ("EUR" :> 92 @@ "GBP" :> 78 @@ "JPY" :> 14000 @@ "INR" :> 8300))
    @@ (<<2025, 4>> :> ("EUR" :> 91 @@ "GBP" :> 79 @@ "JPY" :> 14100 @@ "INR" :> 8350))

DefaultTiers ==
    << TierRule("Tier 1", Order(100000), Some(249999999), 10, << <<0, 100>> >>),
       TierRule("Tier 2", Order(250000), Some(499999999), 15, << <<0, 50>>, <<6, 50>> >>),
       TierRule("Tier 3", Order(500000), None, 20, << <<0, 50>>, <<12, 50>> >>) >>

default_config == ProgramConfig(18, Order(100000), 12, DefaultBaseBonus, DefaultFx, DefaultTiers)

\* Configurations the Configuration tab can produce from the default one.

\* A local leader set the APAC/AE base bonus to 4,001.28 USD.
AdjustedBaseBonus ==
    ("NA" :> ("AE" :> USD(5000))) @@ ("APAC" :> ("AE" :> 400128))

\* An explicit EUR rate of exactly 1.0, and a row for USD itself.
ParityFx ==
    (<<2025, 3>> :> ("EUR" :> 100 @@ "USD" :> 110 @@ "INR" :> 8300))

\* Rates that are zero or negative.
NonPositiveFx ==
    (<<2025, 3>> :> ("EUR" :> 0 @@ "INR" :> 8300))
    @@ (<<2026, 3>> :> ("EUR" :> (0 - 92)))

\* Overlapping ranges; the second tier's fractions sum to 0.75.
OverlapTiers ==
    << TierRule("Wide", Order(100000), Some(Order(300000)), 10, << <<0, 100>> >>),
       TierRule("Upper", Order(250000), None, 15, << <<0, 50>>, <<6, 25>> >>) >>

\* Not sorted, with a gap between 150,000 and 400,000.
GapTiers ==
    << TierRule("High", Order(400000), None, 20, << <<0, 33>>, <<6, 33>>, <<12, 34>> >>),
       TierRule("Low", Order(100000), Some(Order(150000)), 15, << <<0, 50>>, <<12, 50>> >>) >>

\* A negative payout fraction (a clawback); the fractions still sum to 1.0.
NegativeFractionTiers ==
    << TierRule("Tier 1", Order(100000), Some(249999999), 10, << <<0, 150>>, <<6, 0 - 50>> >>),
       TierRule("Tier 2", Order(250000), None, 15, << <<0, 50>>, <<6, 50>> >>) >>

Configs ==
    { default_config,
      ProgramConfig(18, Order(100000), 12, AdjustedBaseBonus, ParityFx, OverlapTiers),
      ProgramConfig(18, Order(100000), 12, AdjustedBaseBonus, DefaultFx, GapTiers),
      ProgramConfig(18, Order(100000), 12, DefaultBaseBonus, DefaultFx, <<>>),
      ProgramConfig(18, Order(100000), 12, AdjustedBaseBonus, DefaultFx, NegativeFractionTiers),
      ProgramConfig(18, Order(100000), 12, AdjustedBaseBonus, NonPositiveFx, DefaultTiers),
      ProgramConfig(1, 0, 1, <<>>, <<>>, DefaultTiers) }

----------------------------------------------------------------------------
(* Deals the calculator form can hold *)

\* Order values: multiples of 100,000 USD, up to MaxAovStep of them.
MaxAovStep == 5

AovValues == { Order(k * 100000) : k \in 0 .. MaxAovStep }

TermValues == {11, 12}

LaunchDates == { Date(2023, 9, 1), Date(2025, 3, 1) }

SigningDates ==
    { Date(2024, 1, 1), Date(2024, 2, 29), Date(2025, 2, 28), Date(2025, 3, 1),
      Date(2025, 7, 15), Date(2025, 8, 31), Date(2026, 8, 31), Date(2026, 9, 1) }

Currencies == {"USD", "usd", "EUR", "INR", "CNY"}

Regions == {"NA", "APAC"}

PoIds == {"   ", "006xx00000ABC123"}

DealInput(region, currency, aov, term, signing, launch, is_new, push, po) ==
    [region |-> region, role |-> "AE", currency |-> currency,
     annual_order_value |-> aov, contract_term_months |-> term,
     signing_date |-> signing, launch_or_announce_date |-> launch,
     is_new_customer |-> is_new, product_type_push |-> push, sfdc_po_id |-> po]

Deals ==
    { DealInput(region, currency, aov, term, signing, launch, is_new, push, po) :
        region \in Regions, currency \in Currencies, aov \in AovValues,
        term \in TermValues, signing \in SigningDates, launch \in LaunchDates,
        is_new \in BOOLEAN, push \in BOOLEAN, po \in PoIds }

----------------------------------------------------------------------------
(* The state machine *)

Init ==
    /\ cfg \in Configs
    /\ deal \in Deals
    /\ pc = "form"
    /\ res = [ok |-> FALSE, error |-> "not computed"]

\* if st.button("Compute Bonus"): res = compute_deal(deal, cfg)
ComputeBonus ==
    /\ pc = "form"
    /\ res' = compute_deal(deal, cfg)
    /\ pc' = "done"
    /\ UNCHANGED <<cfg, deal>>

Next == ComputeBonus

Spec == Init /\ [][Next]_vars

----------------------------------------------------------------------------
(* Properties *)

\* compute_deal returned a DealResult
Returned == pc = "done" /\ res.ok

DealResult == res.value

\* round(a * n / d, 2) falls on an exact half-cent.
HalfCent(a, n, d) == 2 * ((a * (n % d)) % d) = d

\* None of the three products compute_deal rounds is an exact half-cent, so
\* Round2 gives what round(x, 2) gives on the floats.
NoHalfCent ==
    Returned =>
        /\ ~HalfCent(DealResult.base_bonus_usd, DealResult.multiplier, MultScale)
        /\ \A i \in 1 .. Len(DealResult.payouts) :
               /\ ~HalfCent(DealResult.gross_bonus_usd,
                            DealResult.audit.tier_rule.payouts[i][2], FracScale)
               /\ ~HalfCent(DealResult.payouts[i].amount_usd, DealResult.fx_rate, FxScale)

\* The five eligibility checks of the deal in the form, in check order.
ChecksPassed ==
    << deal.is_new_customer,
       deal.product_type_push,
       deal.annual_order_value >= cfg.min_order_usd,
       deal.contract_term_months >= cfg.min_term_months,
       /\ deal.launch_or_announce_date <= deal.signing_date
       /\ deal.signing_date
            <= deal.launch_or_announce_date + MonthsToDays(cfg.program_months) >>

AllChecksPass == \A i \in 1 .. 5 : ChecksPassed[i]

CheckTexts == <<NotNewText, NotPushText, OrderText, TermText, WindowText>>

RECURSIVE ViolatedTexts(_)
ViolatedTexts(i) ==
    IF i > 5 THEN <<>>
    ELSE (IF ChecksPassed[i] THEN <<>> ELSE <<CheckTexts[i]>>) \o ViolatedTexts(i + 1)

RECURSIVE TextsOf(_)
TextsOf(reasons) ==
    IF reasons = <<>> THEN <<>> ELSE <<Head(reasons).text>> \o TextsOf(Tail(reasons))

IsFxWarning(r) == r.text = FxText

HasFxWarning == \E i \in 1 .. Len(DealResult.reasons) : IsFxWarning(DealResult.reasons[i])

\* C1: eligible is true exactly when all five checks pass; the reasons other
\* than the FX warning are one entry per violated check, in check order (so a
\* signing date outside the window gives one reason, early or late); the FX
\* warning does not change eligible.
C1_EligibleIffAllChecks ==
    Returned =>
        /\ DealResult.eligible <=> AllChecksPass
        /\ TextsOf(SelectSeq(DealResult.reasons, LAMBDA r : ~IsFxWarning(r)))
             = ViolatedTexts(1)

\* All five checks fail at once and the FX warning is there too.
C1_Witness ==
    /\ Returned
    /\ \A i \in 1 .. 5 : ~ChecksPassed[i]
    /\ Len(DealResult.reasons) = 6
    /\ HasFxWarning

\* C2: an ineligible deal has multiplier 0.0, gross bonus 0.00, no payouts,
\* while the audit record holds the tier rule selected for its order value.
C2_IneligibleZeroed ==
    (Returned /\ ~AllChecksPass) =>
        /\ DealResult.multiplier = 0
        /\ DealResult.gross_bonus_usd = 0
        /\ DealResult.payouts = <<>>
        /\ DealResult.audit.tier_rule
             = determine_tier(deal.annual_order_value, cfg.tiers).value

\* An ineligible deal on a tier with a multiplier of 2.0 and a base bonus.
C2_Witness ==
    /\ Returned
    /\ ~AllChecksPass
    /\ DealResult.audit.tier_rule.multiplier = 20
    /\ DealResult.base_bonus_usd > 0

\* The tiers whose range contains the order value.
MatchingTiers ==
    { i \in 1 .. Len(cfg.tiers) :
        /\ deal.annual_order_value >= cfg.tiers[i].min_value
        /\ \/ cfg.tiers[i].max_value = None
           \/ deal.annual_order_value <= cfg.tiers[i].max_value[1] }

\* C3: with a non-empty tier list the selected tier is the first one, in list
\* order, whose range contains the order value; when none does, it is a tier
\* with the smallest min_value of all.
C3_FirstMatchElseSmallestMin ==
    (pc = "done" /\ Len(cfg.tiers) > 0) =>
        /\ res.ok
        /\ LET t == DealResult.audit.tier_rule
           IN  IF MatchingTiers # {}
               THEN \E i \in MatchingTiers :
                        /\ t = cfg.tiers[i]
                        /\ \A j \in MatchingTiers : i <= j
               ELSE /\ \E i \in 1 .. Len(cfg.tiers) : t = cfg.tiers[i]
                    /\ \A j \in 1 .. Len(cfg.tiers) : t.min_value <= cfg.tiers[j].min_value

\* No range contains the order value and the fallback is not the first tier.
C3_Witness ==
    /\ Returned
    /\ MatchingTiers = {}
    /\ DealResult.audit.tier_rule # cfg.tiers[1]

\* C4: with an empty tier list the evaluation fails with a ConfigurationError
\* and returns no DealResult.
C4_EmptyTiersConfigurationError ==
    (pc = "done" /\ cfg.tiers = <<>>) =>
        /\ ~res.ok
        /\ res.error = "ConfigurationError"

\* The configuration holds a rate for the deal's currency and signing quarter.
RateConfigured ==
    LET qk == <<YearOf(deal.signing_date), ((MonthOf(deal.signing_date) - 1) \div 3) + 1>>
    IN  /\ qk \in DOMAIN cfg.fx_by_quarter
        /\ Upper(deal.currency) \in DOMAIN cfg.fx_by_quarter[qk]

ConfiguredRate ==
    cfg.fx_by_quarter[quarter_key(deal.signing_date)][Upper(deal.currency)]

\* C5: for a non-USD deal the FX warning is appended exactly when no rate is
\* configured for the currency and signing quarter (the rate is then 1.0); a
\* configured rate is applied without the warning, whatever its value.
C5_WarningIffNoRate ==
    (Returned /\ Upper(deal.currency) # "USD") =>
        /\ HasFxWarning <=> ~RateConfigured
        /\ RateConfigured => DealResult.fx_rate = ConfiguredRate
        /\ ~RateConfigured => DealResult.fx_rate = FxScale

RECURSIVE SumFractions(_)
SumFractions(payouts) ==
    IF payouts = <<>> THEN 0 ELSE Head(payouts)[2] + SumFractions(Tail(payouts))

RECURSIVE SumUsd(_)
SumUsd(payouts) ==
    IF payouts = <<>> THEN 0 ELSE Head(payouts).amount_usd + SumUsd(Tail(payouts))

Abs(x) == IF x < 0 THEN 0 - x ELSE x

\* C6: for an eligible deal on a tier whose fractions sum to 1.0, the USD
\* payouts sum to the gross bonus within 0.01 per payout.
C6_PayoutsSumToGross ==
    (Returned /\ DealResult.eligible
       /\ SumFractions(DealResult.audit.tier_rule.payouts) = FracScale) =>
        Abs(SumUsd(DealResult.payouts) - DealResult.gross_bonus_usd)
            <= Len(DealResult.payouts)

\* Three payouts on fractions summing to 1.0 whose roundings do not cancel.
C6_Witness ==
    /\ Returned
    /\ DealResult.eligible
    /\ SumFractions(DealResult.audit.tier_rule.payouts) = FracScale
    /\ Len(DealResult.payouts) = 3
    /\ SumUsd(DealResult.payouts) # DealResult.gross_bonus_usd

\* The last day of the month k calendar months after the month of date d.
EndOfMonthAfter(d, k) ==
    LET total == (MonthOf(d) - 1) + k
        y == YearOf(d) + (total \div 12)
        m == (total % 12) + 1
    IN  Date(y, m, DaysInMonth(y, m))

\* C7: the payouts of an eligible deal follow tier.payouts in order, and the
\* payout at month offset k is dated the last day of the month k calendar
\* months after the signing month.
C7_PayoutAtEndOfKthMonth ==
    (Returned /\ DealResult.eligible) =>
        /\ Len(DealResult.payouts) = Len(DealResult.audit.tier_rule.payouts)
        /\ \A i \in 1 .. Len(DealResult.payouts) :
               DealResult.payouts[i].date
                 = EndOfMonthAfter(deal.signing_date,
                                   DealResult.audit.tier_rule.payouts[i][1])

\* The tier selected for the deal has a negative payout fraction and the deal
\* is paid on it, or a rate that is zero or negative is configured for it.
BadValueUsed ==
    \/ /\ Len(cfg.tiers) > 0
       /\ AllChecksPass
       /\ LET t == determine_tier(deal.annual_order_value, cfg.tiers).value
          IN  \E i \in 1 .. Len(t.payouts) : t.payouts[i][2] < 0
    \/ /\ Upper(deal.currency) # "USD"
       /\ RateConfigured
       /\ ConfiguredRate <= 0

\* C8: a deal that uses a tier with a negative payout fraction, or a
\* configured FX rate that is zero or negative, raises a configuration error
\* instead of returning a DealResult.
C8_BadValueRaises ==
    (pc = "done" /\ BadValueUsed) =>
        /\ ~res.ok
        /\ res.error = "ConfigurationError"

\* C9: a USD deal has fx_rate 1.0, local amounts equal to the USD amounts,
\* and no FX warning, whatever fx_by_quarter holds.
C9_UsdParity ==
    (Returned /\ Upper(deal.currency) = "USD") =>
        /\ DealResult.fx_rate = FxScale
        /\ \A i \in 1 .. Len(DealResult.payouts) :
               DealResult.payouts[i].amount_local = DealResult.payouts[i].amount_usd
        /\ ~HasFxWarning

\* A paid deal entered as "usd" while fx_by_quarter holds a row for USD in
\* the signing quarter.
C9_Witness ==
    /\ Returned
    /\ deal.currency = "usd"
    /\ RateConfigured
    /\ ConfiguredRate # FxScale
    /\ DealResult.payouts # <<>>
    /\ DealResult.gross_bonus_usd > 0

\* round(gross * frac * fx, 2): the raw product, rounded once.
IndependentRounding(gross, frac, fx) ==
    LET a == gross * frac
        d == FracScale * FxScale
    IN  (a \div d) * fx + Round2((a % d) * fx, d)

\* C10 as stated: amount_usd = round(gross * frac, 2) and amount_local =
\* round(gross * frac * fx, 2), each rounded once from its own raw product.
C10_IndependentlyRounded ==
    (Returned /\ DealResult.eligible) =>
        \A i \in 1 .. Len(DealResult.payouts) :
            LET p == DealResult.payouts[i]
                frac == DealResult.audit.tier_rule.payouts[i][2]
            IN  /\ p.amount_usd = MulRound2(DealResult.gross_bonus_usd, frac, FracScale)
                /\ p.amount_local
                     = IndependentRounding(DealResult.gross_bonus_usd, frac,
                                           DealResult.fx_rate)

\* C10 amended: amount_usd = round(gross * frac, 2) and amount_local =
\* round(amount_usd * fx, 2): the local amount converts the USD amount that
\* was already rounded to cents.
C10_LocalFromRoundedUsd ==
    (Returned /\ DealResult.eligible) =>
        \A i \in 1 .. Len(DealResult.payouts) :
            LET p == DealResult.payouts[i]
                frac == DealResult.audit.tier_rule.payouts[i][2]
            IN  /\ p.amount_usd = MulRound2(DealResult.gross_bonus_usd, frac, FracScale)
                /\ p.amount_local = MulRound2(p.amount_usd, DealResult.fx_rate, FxScale)

\* A payout whose local amount is not the raw product rounded once.
C10_Witness ==
    /\ Returned
    /\ DealResult.eligible
    /\ DealResult.fx_rate > 0
    /\ \E i \in 1 .. Len(DealResult.payouts) :
           DealResult.payouts[i].amount_local
             # IndependentRounding(DealResult.gross_bonus_usd,
                                   DealResult.audit.tier_rule.payouts[i][2],
                                   DealResult.fx_rate)

====
